---- MODULE Spec2Model ----
(***************************************************************************)
(* A model of the notebook why_ANOVA_matters.ipynb: the process-wide       *)
(* pseudo-random generator, sample(), do_all_way_pairwise_tests, do_ANOVA  *)
(* and the trial cells that count false positives.                         *)
(*                                                                         *)
(* Abstractions.  numpy's generator is a finite deterministic generator    *)
(* (a linear congruential step over RngMod states).  A sample of 100       *)
(* observations is kept as its identity (the number of the draw that made  *)
(* it), its size and the two statistics the tests read: a quantised mean   *)
(* and a standard deviation that is zero for a constant sample.  scipy's   *)
(* ttest_ind and f_oneway are deterministic functions of these statistics  *)
(* that return a p-value in units of 1/PScale, or NaN for 0/0.             *)
(***************************************************************************)
EXTENDS Integers, Sequences, FiniteSets

VARIABLES
    rng,                  \* state of numpy's global generator
    drawn,                \* number of sample() calls the running cell has made
    strict,               \* the installed scipy rejects f_oneway of < 2 groups
    frame,                \* locals and result of the running cell's latest call
    pc,                   \* position in the running trial cell
    cell,                 \* the procedure and arguments written in that cell
    bound,                \* the notebook globals the running cell has bound
    num_trials,           \* notebook global, as the running cell bound it
    acc,                  \* the list the comprehension is building
    results,              \* notebook global, as the running cell bound it
    num_false_positives,  \* notebook global, as the running cell bound it
    empirical_FPR,        \* notebook global, as the running cell bound it
    stdout,               \* what the running cell has printed
    exc,                  \* the exception that ended the cell, or "none"
    trials,               \* per call of the running cell: its samples' ids, its outcome
    twin                  \* two separate runs of the same calls (TwinSpec)

vars == <<rng, drawn, strict, frame, pc, cell, bound, num_trials, acc, results,
          num_false_positives, empirical_FPR, stdout, exc, trials, twin>>

----------------------------------------------------------------------------
(* Bounds of the model *)

RngMod == 16
MaxGroups == 3
MaxTrials == 2
MaxCalls == 2

(* Program constants *)

SampleSize == 100

Seeds == {5000, 42}

\* p-values and significance levels are integers in units of 1/PScale
PScale == 3000
\* .05/3, .05 and .1
Alphas == {50, 150, 300}

GroupCounts == 0..MaxGroups
TrialCounts == -1..MaxTrials

----------------------------------------------------------------------------
(* Floating point *)

NaN == [nan |-> TRUE, v |-> 0]
PV(x) == [nan |-> FALSE, v |-> x]

\* p < sig on floats: every comparison with NaN is False
Less(p, sig) == (~p.nan) /\ p.v < sig

Abs(x) == IF x < 0 THEN -x ELSE x
MinOf(S) == CHOOSE x \in S : \A y \in S : x <= y
MaxOf(S) == CHOOSE x \in S : \A y \in S : x >= y

----------------------------------------------------------------------------
(* The generator *)

\* np.random.seed(v): the state is a function of the seed alone
SeedMixed(old, v) == (old + v) % RngMod
SeedState(old, v) == v % RngMod

NextState(s) == (5 * s + 3) % RngMod

Mean(s) == ((s \div 2) % 3) - 1
Sd(s) == IF s \in {2, 3} THEN 0 ELSE 1

sample_reused(s, d) ==
    [value |-> [id |-> d, size |-> SampleSize, mean |-> Mean(s), sd |-> Sd(s)],
     rng |-> s,
     drawn |-> d]

\* sample(): one draw of SampleSize observations; d numbers the draw
sample(s, d) ==
    [value |-> [id |-> d, size |-> SampleSize, mean |-> Mean(s), sd |-> Sd(s)],
     rng |-> NextState(s),
     drawn |-> d + 1]

\* [sample() for _ in range(n)]
RECURSIVE DrawGroups(_, _, _)
DrawGroups(s, d, n) ==
    IF n <= 0 THEN [groups |-> <<>>, rng |-> s, drawn |-> d]
    ELSE LET r == DrawGroups(s, d, n - 1)
             x == sample(r.rng, r.drawn)
         IN  [groups |-> Append(r.groups, x.value), rng |-> x.rng, drawn |-> x.drawn]

----------------------------------------------------------------------------
(* The statistics library *)

PTable(d) == CASE d = 0 -> PScale [] d = 1 -> 150 [] OTHER -> 30

\* scipy.stats.ttest_ind(a, b).pvalue
ttest_ind(a, b) ==
    LET d == Abs(a.mean - b.mean)
    IN  IF a.sd = 0 /\ b.sd = 0
        THEN (IF d = 0 THEN NaN ELSE PV(0))
        ELSE PV(PTable(d))

\* scipy.stats.f_oneway(*groups): [raised, pvalue]
f_oneway(groups, rejects) ==
    LET n == Len(groups)
        means == {groups[i].mean : i \in 1..n}
        spread == MaxOf(means) - MinOf(means)
        p == PTable(spread) * (n - 1)
    IN  IF n < 2
        THEN (IF rejects THEN [raised |-> "TypeError", pvalue |-> NaN]
              ELSE IF n = 0 THEN [raised |-> "ValueError", pvalue |-> NaN]
              ELSE [raised |-> "none", pvalue |-> NaN])
        ELSE IF \A i \in 1..n : groups[i].sd = 0
        THEN [raised |-> "none", pvalue |-> IF spread = 0 THEN NaN ELSE PV(0)]
        ELSE [raised |-> "none", pvalue |-> PV(IF p > PScale THEN PScale ELSE p)]

----------------------------------------------------------------------------
(* The two procedures *)

\* itertools.combinations(pool, r=2), in the order it yields
RECURSIVE CombFrom(_, _, _)
CombFrom(pool, i, j) ==
    IF i >= Len(pool) THEN <<>>
    ELSE IF j > Len(pool) THEN CombFrom(pool, i + 1, i + 2)
    ELSE <<(<<pool[i], pool[j]>>)>> \o CombFrom(pool, i, j + 1)

combinations_with_replacement(pool) == CombFrom(pool, 1, 1)

combinations(pool) == CombFrom(pool, 1, 2)

all(flags) == \A k \in 1..Len(flags) : flags[k]

\* any(list)
any(flags) == \E k \in 1..Len(flags) : flags[k]

do_all_way_pairwise_tests(s, d, num_groups, pairwise_sig) ==
    LET g == DrawGroups(s, d, num_groups)
        pairs == combinations(g.groups)
        pvalues == [k \in 1..Len(pairs) |-> ttest_ind(pairs[k][1], pairs[k][2])]
        flags == [k \in 1..Len(pairs) |-> Less(pvalues[k], pairwise_sig)]
    IN  [fn |-> "pairwise", num_groups |-> num_groups, sig |-> pairwise_sig,
         rng0 |-> s, groups |-> g.groups, rng |-> g.rng, drawn |-> g.drawn,
         tested |-> pairs, pvalues |-> pvalues, ftests |-> <<>>, fvalues |-> <<>>,
         raised |-> "none", ret |-> any(flags)]

do_ANOVA_by_pairs(s, d, num_groups, sig, rejects) ==
    [do_all_way_pairwise_tests(s, d, num_groups, sig) EXCEPT !.fn = "anova"]

do_ANOVA(s, d, num_groups, sig, rejects) ==
    LET g == DrawGroups(s, d, num_groups)
        f == f_oneway(g.groups, rejects)
    IN  [fn |-> "anova", num_groups |-> num_groups, sig |-> sig,
         rng0 |-> s, groups |-> g.groups, rng |-> g.rng, drawn |-> g.drawn,
         tested |-> <<>>, pvalues |-> <<>>, ftests |-> <<g.groups>>,
         fvalues |-> IF f.raised = "none" THEN <<f.pvalue>> ELSE <<>>,
         raised |-> f.raised,
         ret |-> f.raised = "none" /\ Less(f.pvalue, sig)]

Procedure(fn, s, d, n, a, rejects) ==
    IF fn = "pairwise" THEN do_all_way_pairwise_tests(s, d, n, a)
    ELSE do_ANOVA(s, d, n, a, rejects)

Ids(groups) == {groups[i].id : i \in 1..Len(groups)}

\* what one call used and gave back
TrialOf(f) == [ids |-> Ids(f.groups), raised |-> f.raised, ret |-> f.ret]

\* what a caller can observe of one call: the samples, and the outcome
Outcome(f) == [groups |-> f.groups, raised |-> f.raised, ret |-> f.ret]

----------------------------------------------------------------------------
(* The notebook *)

NoFrame ==
    [fn |-> "none", num_groups |-> 0, sig |-> 0, rng0 |-> 0, groups |-> <<>>,
     rng |-> 0, drawn |-> 0, tested |-> <<>>, pvalues |-> <<>>, ftests |-> <<>>,
     fvalues |-> <<>>, raised |-> "none", ret |-> FALSE]

NoTwin ==
    [seeded |-> FALSE, differ |-> FALSE, a |-> 0, b |-> 0, drawn |-> 0,
     outA |-> <<>>, outB |-> <<>>]

NoRate == [num |-> 0, den |-> 1]

Ready == pc \in {"idle", "done", "error"}

Init ==
    /\ rng \in 0..(RngMod - 1)
    /\ drawn = 0
    /\ strict \in BOOLEAN
    /\ frame = NoFrame
    /\ pc = "idle"
    /\ cell = [fn |-> "none", num_groups |-> 0, sig |-> 0, rng0 |-> 0]
    /\ bound = {}
    /\ num_trials = 0
    /\ acc = <<>>
    /\ results = <<>>
    /\ num_false_positives = 0
    /\ empirical_FPR = NoRate
    /\ stdout = <<>>
    /\ exc = "none"
    /\ trials = <<>>
    /\ twin = NoTwin

\* np.random.seed(v)
Seed(v) ==
    /\ Ready
    /\ rng' = SeedState(rng, v)
    /\ UNCHANGED <<drawn, strict, frame, pc, cell, bound, num_trials, acc, results,
                   num_false_positives, empirical_FPR, stdout, exc, trials, twin>>

\* a cell that calls one procedure once, such as do_ANOVA(num_groups=3, sig=.05)
Call(fn, n, a) ==
    /\ Ready
    /\ LET f == Procedure(fn, rng, 0, n, a, strict)
       IN  /\ frame' = f
           /\ rng' = f.rng
           /\ drawn' = f.drawn
           /\ trials' = <<TrialOf(f)>>
           /\ exc' = f.raised
           /\ pc' = IF f.raised = "none" THEN "done" ELSE "error"
    /\ cell' = [fn |-> fn, num_groups |-> n, sig |-> a, rng0 |-> rng]
    /\ bound' = {}
    /\ num_trials' = 0
    /\ acc' = <<>>
    /\ results' = <<>>
    /\ num_false_positives' = 0
    /\ empirical_FPR' = NoRate
    /\ stdout' = <<>>
    /\ UNCHANGED <<strict, twin>>

\* num_trials = nt; results = [procedure(...) for _ in range(num_trials)] begins
StartCell(fn, n, a, nt) ==
    /\ Ready
    /\ cell' = [fn |-> fn, num_groups |-> n, sig |-> a, rng0 |-> rng]
    /\ bound' = {"num_trials"}
    /\ num_trials' = nt
    /\ acc' = <<>>
    /\ results' = <<>>
    /\ num_false_positives' = 0
    /\ empirical_FPR' = NoRate
    /\ stdout' = <<>>
    /\ exc' = "none"
    /\ trials' = <<>>
    /\ frame' = NoFrame
    /\ drawn' = 0
    /\ pc' = "loop"
    /\ UNCHANGED <<rng, strict, twin>>

range(n) == 0..(n - 1)

MoreTrialsInclusive(i, n) == i \in 0..n

\* whether the comprehension has another iteration after i of them
MoreTrials(i, n) == i \in range(n)

\* one iteration of the comprehension: one call of the cell's procedure
Trial ==
    /\ pc = "loop"
    /\ MoreTrials(Len(acc), num_trials)
    /\ LET f == Procedure(cell.fn, rng, drawn, cell.num_groups, cell.sig, strict)
       IN  /\ frame' = f
           /\ rng' = f.rng
           /\ drawn' = f.drawn
           /\ trials' = Append(trials, TrialOf(f))
           /\ IF f.raised = "none"
              THEN /\ acc' = Append(acc, f.ret)
                   /\ UNCHANGED <<pc, exc>>
              ELSE /\ pc' = "error"
                   /\ exc' = f.raised
                   /\ UNCHANGED acc
    /\ UNCHANGED <<strict, cell, bound, num_trials, results, num_false_positives,
                   empirical_FPR, stdout, twin>>

\* the comprehension is exhausted: results is bound to the list
EndLoop ==
    /\ pc = "loop"
    /\ ~MoreTrials(Len(acc), num_trials)
    /\ results' = acc
    /\ bound' = bound \cup {"results"}
    /\ pc' = "count"
    /\ UNCHANGED <<rng, drawn, strict, frame, cell, num_trials, acc,
                   num_false_positives, empirical_FPR, stdout, exc, trials, twin>>

\* list.count(x)
count(list, x) == Cardinality({k \in 1..Len(list) : list[k] = x})

\* num_false_positives = results.count(True)
CountStep ==
    /\ pc = "count"
    /\ num_false_positives' = count(results, TRUE)
    /\ bound' = bound \cup {"num_false_positives"}
    /\ pc' = "rate"
    /\ UNCHANGED <<rng, drawn, strict, frame, cell, num_trials, acc, results,
                   empirical_FPR, stdout, exc, trials, twin>>

\* a / b on an int and an int: the quotient, kept as the fraction it rounds
TrueDiv(a, b) == [num |-> a, den |-> b]

\* empirical_FPR = num_false_positives / num_trials
RateStep ==
    /\ pc = "rate"
    /\ IF num_trials = 0
       THEN /\ exc' = "ZeroDivisionError"
            /\ pc' = "error"
            /\ UNCHANGED <<empirical_FPR, bound>>
       ELSE /\ empirical_FPR' = TrueDiv(num_false_positives, num_trials)
            /\ bound' = bound \cup {"empirical_FPR"}
            /\ pc' = "print1"
            /\ UNCHANGED exc
    /\ UNCHANGED <<rng, drawn, strict, frame, cell, num_trials, acc, results,
                   num_false_positives, stdout, trials, twin>>

\* print(num_false_positives)
PrintCount ==
    /\ pc = "print1"
    /\ stdout' = Append(stdout, num_false_positives)
    /\ pc' = "print2"
    /\ UNCHANGED <<rng, drawn, strict, frame, cell, bound, num_trials, acc, results,
                   num_false_positives, empirical_FPR, exc, trials, twin>>

\* print(empirical_FPR)
PrintRate ==
    /\ pc = "print2"
    /\ stdout' = Append(stdout, empirical_FPR)
    /\ pc' = "done"
    /\ UNCHANGED <<rng, drawn, strict, frame, cell, bound, num_trials, acc, results,
                   num_false_positives, empirical_FPR, exc, trials, twin>>

Procedures == {"pairwise", "anova"}

Next ==
    \/ \E v \in Seeds : Seed(v)
    \/ \E fn \in Procedures, n \in GroupCounts, a \in Alphas : Call(fn, n, a)
    \/ \E fn \in Procedures, n \in GroupCounts, a \in Alphas, nt \in TrialCounts :
          StartCell(fn, n, a, nt)
    \/ Trial
    \/ EndLoop
    \/ CountStep
    \/ RateStep
    \/ PrintCount
    \/ PrintRate

Spec == Init /\ [][Next]_vars

----------------------------------------------------------------------------
(* Two runs of one program: the same seed, then the same calls, from         *)
(* generators that were in unrelated states before seeding.                  *)

TwinInit ==
    /\ rng = 0
    /\ drawn = 0
    /\ strict \in BOOLEAN
    /\ frame = NoFrame
    /\ pc = "idle"
    /\ cell = [fn |-> "none", num_groups |-> 0, sig |-> 0, rng0 |-> 0]
    /\ bound = {}
    /\ num_trials = 0
    /\ acc = <<>>
    /\ results = <<>>
    /\ num_false_positives = 0
    /\ empirical_FPR = NoRate
    /\ stdout = <<>>
    /\ exc = "none"
    /\ trials = <<>>
    /\ \E a \in 0..(RngMod - 1), b \in 0..(RngMod - 1) :
          twin = [NoTwin EXCEPT !.a = a, !.b = b, !.differ = (a # b)]

mainvars == <<rng, drawn, strict, frame, pc, cell, bound, num_trials, acc, results,
              num_false_positives, empirical_FPR, stdout, exc, trials>>

\* np.random.seed(v) in both runs
TwinSeed(v) ==
    /\ twin' = [twin EXCEPT !.seeded = TRUE,
                            !.a = SeedState(twin.a, v),
                            !.b = SeedState(twin.b, v),
                            !.drawn = 0,
                            !.outA = <<>>,
                            !.outB = <<>>]
    /\ UNCHANGED mainvars

\* the same call in both runs
TwinCall(fn, n, a) ==
    /\ twin.seeded
    /\ Len(twin.outA) < MaxCalls
    /\ LET fA == Procedure(fn, twin.a, twin.drawn, n, a, strict)
           fB == Procedure(fn, twin.b, twin.drawn, n, a, strict)
       IN  twin' = [twin EXCEPT !.a = fA.rng,
                                !.b = fB.rng,
                                !.drawn = fA.drawn,
                                !.outA = Append(twin.outA, Outcome(fA)),
                                !.outB = Append(twin.outB, Outcome(fB))]
    /\ UNCHANGED mainvars

TwinNext ==
    \/ \E v \in Seeds : TwinSeed(v)
    \/ \E fn \in Procedures, n \in GroupCounts, a \in Alphas : TwinCall(fn, n, a)

TwinSpec == TwinInit /\ [][TwinNext]_vars

----------------------------------------------------------------------------
(* Properties *)

Significant(p, sig) == p.nan = FALSE /\ p.v < sig

IndexPairs(n) == {q \in (1..n) \X (1..n) : q[1] < q[2]}

TrialCell == "num_trials" \in bound

RECURSIVE Advance(_, _)
Advance(s, n) == IF n <= 0 THEN s ELSE NextState(Advance(s, n - 1))

\* C1: a call of do_all_way_pairwise_tests with num_groups >= 2 returns, has
\* passed each unordered pair of distinct drawn samples to ttest_ind exactly
\* once and nothing else (C(num_groups, 2) tests), and its result is True
\* exactly when some pair's p-value is strictly below pairwise_sig.
C1_PairwiseIsOrOverAllPairs ==
    (frame.fn = "pairwise" /\ frame.num_groups >= 2) =>
        LET n == frame.num_groups
            g == frame.groups
            t == frame.tested
        IN  /\ frame.raised = "none"
            /\ Len(g) = n
            /\ 2 * Len(t) = n * (n - 1)
            /\ \A k \in 1..Len(t) : t[k][1].id # t[k][2].id
            /\ \A q \in IndexPairs(n) :
                  Cardinality({k \in 1..Len(t) :
                      {t[k][1].id, t[k][2].id} = {g[q[1]].id, g[q[2]].id}}) = 1
            /\ frame.ret =
                  (\E q \in IndexPairs(n) :
                      Significant(ttest_ind(g[q[1]], g[q[2]]), frame.sig))

\* C1 witness: three groups, a significant pair, and a pair whose p-value
\* equals the significance level and so does not count.
C1_Witness ==
    /\ frame.fn = "pairwise"
    /\ frame.num_groups = 3
    /\ frame.ret
    /\ \E k \in 1..Len(frame.pvalues) : frame.pvalues[k] = PV(frame.sig)
    /\ \E k \in 1..Len(frame.pvalues) : Significant(frame.pvalues[k], frame.sig)

\* C2: a call of do_ANOVA with num_groups >= 2 returns, has made exactly one
\* f_oneway call, over all the samples it drew, and no ttest_ind call, and its
\* result is True exactly when that p-value is strictly below sig.
C2_AnovaIsOneGlobalTest ==
    (frame.fn = "anova" /\ frame.num_groups >= 2) =>
        /\ frame.raised = "none"
        /\ Len(frame.groups) = frame.num_groups
        /\ frame.tested = <<>>
        /\ frame.pvalues = <<>>
        /\ frame.ftests = <<frame.groups>>
        /\ Len(frame.fvalues) = 1
        /\ frame.ret = Significant(frame.fvalues[1], frame.sig)

\* C2 witness: an ANOVA over three groups that rejects although a pairwise
\* test at the same level would not have been needed to say so.
C2_Witness ==
    /\ frame.fn = "anova"
    /\ frame.num_groups = 3
    /\ frame.ret
    /\ Len(frame.fvalues) = 1

\* C3: a trial cell with num_trials > 0 over a valid group count does not
\* fail; it binds the count and the rate only after the loop has made exactly
\* num_trials calls; the count is the number of calls that returned True, the
\* rate is count / num_trials, both within their ranges; and the steps that
\* follow the computation leave results, count and rate as computed.
C3_Aggregate ==
    /\ [](/\ (TrialCell /\ num_trials > 0 /\ cell.num_groups >= 2) => pc # "error"
          /\ (TrialCell /\ "num_false_positives" \in bound) =>
                /\ "results" \in bound
                /\ pc \notin {"loop", "count"}
          /\ (TrialCell /\ num_trials > 0 /\ "results" \in bound) =>
                /\ Len(trials) = num_trials
                /\ Len(results) = num_trials
                /\ \A k \in 1..num_trials :
                      trials[k].raised = "none" /\ results[k] = trials[k].ret
          /\ (TrialCell /\ num_trials > 0 /\ "num_false_positives" \in bound) =>
                /\ num_false_positives =
                      Cardinality({k \in 1..Len(trials) : trials[k].ret})
                /\ 0 <= num_false_positives
                /\ num_false_positives <= num_trials
          /\ (TrialCell /\ num_trials > 0 /\ "empirical_FPR" \in bound) =>
                /\ empirical_FPR.num = num_false_positives
                /\ empirical_FPR.den = num_trials
                /\ 0 <= empirical_FPR.num
                /\ empirical_FPR.num <= empirical_FPR.den
                /\ pc \in {"print1", "print2", "done"})
    /\ [][(TrialCell /\ pc \in {"print1", "print2"}) =>
              /\ results' = results
              /\ num_false_positives' = num_false_positives
              /\ empirical_FPR' = empirical_FPR
              /\ bound' = bound]_vars

\* C3 witness: a finished cell of two trials, one of them positive.
C3_Witness ==
    /\ pc = "done"
    /\ TrialCell
    /\ num_trials = 2
    /\ num_false_positives = 1
    /\ Len(stdout) = 2

\* C4 (as claimed): a call with num_groups < 2 fails with InvalidArgument.
C4_FewGroupsRejected ==
    (frame.fn # "none" /\ frame.num_groups < 2) => frame.raised = "InvalidArgument"

\* C5 (as claimed): a trial cell with num_trials <= 0 ends in InvalidArgument,
\* having bound no count and no rate and printed nothing.
C5_NoTrialsRejected ==
    (TrialCell /\ num_trials <= 0 /\ pc \in {"done", "error"}) =>
        /\ exc = "InvalidArgument"
        /\ "num_false_positives" \notin bound
        /\ "empirical_FPR" \notin bound
        /\ stdout = <<>>

C9_FreshSamples ==
    /\ [](/\ frame.fn # "none" =>
                /\ Len(frame.groups) = frame.num_groups
                /\ Cardinality(Ids(frame.groups)) = frame.num_groups
                /\ \A i \in 1..Len(frame.groups) : frame.groups[i].size = SampleSize
                /\ frame.rng = Advance(frame.rng0, frame.num_groups)
                /\ rng = frame.rng \/ Ready
          /\ \A k \in 1..Len(trials) :
                /\ Cardinality(trials[k].ids) = cell.num_groups
                /\ \A l \in 1..Len(trials) : k # l => trials[k].ids \cap trials[l].ids = {}
          /\ pc # "idle" =>
                /\ drawn = Len(trials) * cell.num_groups
                /\ rng = Advance(cell.rng0, drawn) \/ Ready
          /\ (TrialCell /\ pc = "done" /\ num_trials >= 0) =>
                /\ Len(trials) = num_trials
                /\ drawn = num_trials * cell.num_groups)
    /\ [][pc = "loop" /\ pc' = "loop" =>
              UNCHANGED <<strict, cell, bound, num_trials, results,
                          num_false_positives, empirical_FPR, stdout, exc>>]_vars
    /\ [][pc = "loop" /\ pc' \in {"loop", "error"} =>
              /\ rng' = Advance(rng, cell.num_groups)
              /\ drawn' = drawn + cell.num_groups]_vars

\* C9 witness: a finished cell of two trials of three groups: six draws.
C9_Witness ==
    /\ pc = "done"
    /\ TrialCell
    /\ num_trials = 2
    /\ cell.num_groups = 3
    /\ drawn = 6
    /\ rng = Advance(cell.rng0, 6)

\* C10: if a call of do_all_way_pairwise_tests with k >= 2 groups returned
\* True, the call with k + 1 groups from the same generator state and at the
\* same significance returns True.
C10_MonotoneInGroups ==
    (frame.fn = "pairwise" /\ frame.num_groups >= 2 /\ frame.ret) =>
        LET more == do_all_way_pairwise_tests(frame.rng0, frame.drawn - frame.num_groups,
                                              frame.num_groups + 1, frame.sig)
        IN  /\ more.ret
            /\ \A i \in 1..frame.num_groups : more.groups[i] = frame.groups[i]

\* C10 witness: a positive call with two groups whose three-group extension
\* also tests a pair that is not significant.
C10_Witness ==
    /\ frame.fn = "pairwise"
    /\ frame.num_groups = 2
    /\ frame.ret
    /\ LET more == do_all_way_pairwise_tests(frame.rng0, frame.drawn - 2, 3, frame.sig)
       IN  \E k \in 1..Len(more.pvalues) : ~Significant(more.pvalues[k], frame.sig)

====
